---- MODULE Spec2Model ----
(***************************************************************************)
(* Model of fountain_eval/fountain_eval.py: the line-by-line parser        *)
(* extract_character_data and the text helpers it uses.                    *)
(*                                                                         *)
(* A line of text is a tuple of one-character strings, so that the regular *)
(* expressions and string methods of the source are computed character by  *)
(* character.  Times are kept in milliseconds (integers): with the         *)
(* shipped rate of 150 words per minute one word lasts 400 ms.             *)
(***************************************************************************)
EXTENDS Integers, Sequences, FiniteSets, TLC

VARIABLES
    lines,               \* f.readlines(): the script, a sequence of lines
    i,                   \* 1-based index of the next line the for loop reads
    character_data,      \* dict: name -> [positions, word_count, line_count]
    current_time,        \* running cursor, in ms
    current_character,   \* None or the cleaned cue text
    capturing_dialogue,  \* flag for multiline dialogue
    pc,                  \* "loop" | "done" (returned) | "raised" (exception)
    total_seconds,       \* returned total, in ms (0 until set)
    error,               \* name of the exception raised, "" if none
    wpm,                 \* value of the module global WORDS_PER_MINUTE
    attributed,          \* history: <<character, line index>> per dialogue turn
    calls,               \* history: number of calls of the function so far
    saved,               \* history: <<lines, outcome>> of one remembered call
    show_plot,           \* analyze_fountain_file argument
    show_cli,            \* analyze_fountain_file argument
    apc,                 \* position in analyze_fountain_file:
                         \* "parse" | "plot" | "cli" | "table" | "end" | "crashed"
    bars                 \* display_cli_timeline: name -> cells of the bar filled

viewVars == <<show_plot, show_cli, apc, bars>>

vars == <<lines, i, character_data, current_time, current_character,
          capturing_dialogue, pc, total_seconds, error, wpm, attributed,
          calls, saved, viewVars>>

-----------------------------------------------------------------------------
(* Bounds and program constants *)

MaxLines == 4

MaxCalls == 3

MaxCallLines == 2

WORDS_PER_MINUTE == 150

MsPerMinute == 60000

MaxShownLines == 3

max_length == 50

-----------------------------------------------------------------------------
(* Characters *)

Whitespace == {" ", "\n", "\t", "\r"}

CueChars == {"A", "B", "C", "D", "E", "F", "G", "H", "I", "J", "K", "L", "M",
             "N", "O", "P", "Q", "R", "S", "T", "U", "V", "W", "X", "Y", "Z",
             "#", "0", "1", "2", "3", "4", "5", "6", "7", "8", "9", " "}

ContdMarker == <<" ", "(", "C", "O", "N", "T", "'", "D", ")">>

None == <<"<None>">>

SetMin(S) == CHOOSE x \in S : \A y \in S : x <= y

SetMax(S) == CHOOSE x \in S : \A y \in S : x >= y

-----------------------------------------------------------------------------
(* Text helpers *)

\* Index of the first ")" that closes a "(" at s[1] without crossing a
\* newline ("." does not match "\n"; ".*?" is non-greedy); 0 if there is none.
ClosingAt(s) ==
    LET ends == {j \in 2..Len(s) :
                    /\ s[j] = ")"
                    /\ \A k \in 2..(j - 1) : s[k] # "\n"}
    IN  IF ends = {} THEN 0 ELSE SetMin(ends)

\* re.sub(r"\(.*?\)", "", s)
RECURSIVE RemoveParens(_)
RemoveParens(s) ==
    IF s = <<>> THEN <<>>
    ELSE IF Head(s) = "(" /\ ClosingAt(s) # 0
         THEN RemoveParens(SubSeq(s, ClosingAt(s) + 1, Len(s)))
         ELSE <<Head(s)>> \o RemoveParens(Tail(s))

\* s.replace(pat, "")
RECURSIVE RemoveAll(_, _)
RemoveAll(s, pat) ==
    IF Len(s) < Len(pat) THEN s
    ELSE IF SubSeq(s, 1, Len(pat)) = pat
         THEN RemoveAll(SubSeq(s, Len(pat) + 1, Len(s)), pat)
         ELSE <<Head(s)>> \o RemoveAll(Tail(s), pat)

\* s.strip()
Strip(s) ==
    LET keep == {k \in 1..Len(s) : s[k] \notin Whitespace}
    IN  IF keep = {} THEN <<>> ELSE SubSeq(s, SetMin(keep), SetMax(keep))

clean_line(line) == Strip(RemoveAll(RemoveParens(line), ContdMarker))

\* text.split(): the list of maximal runs of non-whitespace characters
RECURSIVE Split(_)
Split(s) ==
    IF s = <<>> THEN <<>>
    ELSE IF Head(s) \in Whitespace THEN Split(Tail(s))
    ELSE LET stops == {k \in 1..Len(s) : s[k] \in Whitespace}
             n == IF stops = {} THEN Len(s) ELSE SetMin(stops) - 1
         IN  <<SubSeq(s, 1, n)>> \o Split(SubSeq(s, n + 1, Len(s)))

\* Fault: the separators are counted instead of the words.
CountSeparators(text) == Cardinality({k \in 1..Len(text) : text[k] \in Whitespace})

\* len(text.split())
count_words(text) == Len(Split(text))

AllWhitespace(s, from) == \A k \in from..Len(s) : s[k] \in Whitespace

\* character_re.match(s):  ^[A-Z#0-9 ]+(?: \(CONT'D\))?\s*$
character_re(s) ==
    \E n \in 1..Len(s) :
        /\ \A k \in 1..n : s[k] \in CueChars
        /\ \/ AllWhitespace(s, n + 1)
           \/ /\ n + Len(ContdMarker) <= Len(s)
              /\ SubSeq(s, n + 1, n + Len(ContdMarker)) = ContdMarker
              /\ AllWhitespace(s, n + Len(ContdMarker) + 1)

\* "$" matches at the end of the string or just before a final newline
AtEnd(s, k) == k = Len(s) \/ (k = Len(s) - 1 /\ s[Len(s)] = "\n")

\* parenthetical_re.match(s):  ^\([^\)]+\)\n$
parenthetical_re(s) ==
    \E n \in 4..Len(s) :
        /\ s[1] = "("
        /\ \A k \in 2..(n - 2) : s[k] # ")"
        /\ s[n - 1] = ")"
        /\ s[n] = "\n"
        /\ AtEnd(s, n)

\* stage_direction_re.match(s):  ^\.[^\n]+\n$
stage_direction_re(s) ==
    \E n \in 3..Len(s) :
        /\ s[1] = "."
        /\ \A k \in 2..(n - 1) : s[k] # "\n"
        /\ s[n] = "\n"
        /\ AtEnd(s, n)

-----------------------------------------------------------------------------
(* Script lines, as f.readlines() yields them *)

LineJoe == <<"J", "O", "E", "\n">>

LineAl == <<"A", "L", "\n">>

LineJoeContd == <<"J", "O", "E", " ", "(", "C", "O", "N", "T", "'", "D", ")", "\n">>

LineParenthetical == <<"(", "l", "o", "w", ")", "\n">>

LineStageDirection == <<".", "C", "u", "t", "\n">>

LineTalk == <<"O", "h", " ", "h", "i", " ", "y", "o", "\n">>

LineTalkInline == <<"H", "i", " ", "(", "x", ")", " ", "y", "o", "\n">>

LineBlank == <<"\n">>

LineUnterminated == <<"B", "y", "e">>

LineSet == {LineJoe, LineAl, LineJoeContd, LineParenthetical, LineStageDirection,
            LineTalk, LineTalkInline, LineBlank, LineUnterminated}

CallLineSet == {LineJoe, LineTalk, LineBlank}

\* readlines() ends every line but possibly the last with a newline
WellFormed(script) ==
    \A k \in 1..(Len(script) - 1) : script[k][Len(script[k])] = "\n"

ScriptsOver(S, n) == {s \in UNION {[1..m -> S] : m \in 0..n} : WellFormed(s)}

Scripts == ScriptsOver(LineSet, MaxLines)

CallScripts == ScriptsOver(CallLineSet, MaxCallLines)

Rates == {0 - WORDS_PER_MINUTE, 0, WORDS_PER_MINUTE}

-----------------------------------------------------------------------------
(* extract_character_data *)

EmptyRecord == [positions |-> <<>>, word_count |-> 0, line_count |-> 0]

EmptyData == [c \in {} |-> EmptyRecord]

EmptyBars == [c \in {} |-> {}]

\* Python truth value of current_character
Truthy(name) == name # None /\ name # <<>>

\* Fault: the cue always stores a fresh record, as if the membership test
\* were missing.
WithFreshRecord(data, name) ==
    [c \in DOMAIN data \cup {name} |-> IF c = name THEN EmptyRecord ELSE data[c]]

\* Fault: the cue never stores a record.
WithoutRecord(data, name) == data

\* if current_character not in character_data: character_data[...] = {...}
WithRecord(data, name) ==
    IF name \in DOMAIN data THEN data
    ELSE [c \in DOMAIN data \cup {name} |->
             IF c \in DOMAIN data THEN data[c] ELSE EmptyRecord]

\* Fault: the factor 60 of "/ wpm * 60" is dropped.
DurationPerSecond(word_count, rate) == (word_count * 1000) \div rate

\* duration = word_count / WORDS_PER_MINUTE * 60, in ms, for rate # 0
Duration(word_count, rate) ==
    IF rate > 0 THEN (word_count * MsPerMinute) \div rate
    ELSE 0 - ((word_count * MsPerMinute) \div (0 - rate))

\* Fault: the duration is subtracted from the cursor.
EndTimeSubtracting(start, word_count, rate) == start - Duration(word_count, rate)

\* end_time = current_time + duration
EndTime(start, word_count, rate) == start + Duration(word_count, rate)

\* Fault: word_count is assigned ("=") where the source accumulates ("+=").
SpeakingTurnAssigning(rec, start, end, word_count) ==
    [positions  |-> Append(rec.positions, <<start, end>>),
     word_count |-> word_count,
     line_count |-> rec.line_count + 1]

\* the three updates of the current character's record
SpeakingTurn(rec, start, end, word_count) ==
    [positions  |-> Append(rec.positions, <<start, end>>),
     word_count |-> rec.word_count + word_count,
     line_count |-> rec.line_count + 1]

\* Fault: the test for an empty line is missing, so the flag is never cleared.
BlankCheckKeeping(cleaned, capturing) == capturing

\* Fault: the flag is assigned from the line ("capturing = line is not empty").
BlankCheckAssigning(cleaned, capturing) == cleaned # <<>>

\* if cleaned_line == "": capturing_dialogue = False
BlankCheck(cleaned, capturing) == IF cleaned = <<>> THEN FALSE ELSE capturing

\* the end times the generator of max(...) yields
AllEnds(data) ==
    UNION {{data[c].positions[k][2] : k \in 1..Len(data[c].positions)} :
              c \in DOMAIN data}

\* Fault: the cursor is kept across calls, as a module-level variable would be.
EnterCallKeepingClock ==
    /\ character_data' = EmptyData
    /\ UNCHANGED current_time
    /\ current_character' = None
    /\ capturing_dialogue' = FALSE

\* character_data = {}; current_time = 0; current_character = None;
\* capturing_dialogue = False
EnterCall ==
    /\ character_data' = EmptyData
    /\ current_time' = 0
    /\ current_character' = None
    /\ capturing_dialogue' = FALSE

\* the state on entry of extract_character_data, lines read
ParserInit(scripts, rates) ==
    /\ lines \in scripts
    /\ wpm \in rates
    /\ i = 1
    /\ character_data = EmptyData
    /\ current_time = 0
    /\ current_character = None
    /\ capturing_dialogue = FALSE
    /\ pc = "loop"
    /\ total_seconds = 0
    /\ error = ""
    /\ attributed = <<>>
    /\ calls = 1
    /\ saved = <<>>

InitWith(scripts, rates) ==
    /\ ParserInit(scripts, rates)
    /\ show_plot = FALSE
    /\ show_cli = FALSE
    /\ apc = "parse"
    /\ bars = EmptyBars

Init == InitWith(Scripts, {WORDS_PER_MINUTE})

InLoop == pc = "loop" /\ i <= Len(lines)

Finished == pc \in {"done", "raised"}

Raise(exception) ==
    /\ pc' = "raised"
    /\ error' = exception
    /\ UNCHANGED <<lines, i, character_data, current_time, current_character,
                   capturing_dialogue, total_seconds, wpm, attributed, calls,
                   saved, viewVars>>

\* Fault: a cue met while capturing is on does not change the speaker.
CharacterCueKeepingSpeaker ==
    /\ InLoop
    /\ LET cleaned == clean_line(lines[i])
       IN  /\ character_re(cleaned)
           /\ current_character' = IF capturing_dialogue THEN current_character
                                   ELSE Strip(cleaned)
           /\ character_data' = WithRecord(character_data, Strip(cleaned))
           /\ capturing_dialogue' = BlankCheck(cleaned, TRUE)
    /\ i' = i + 1
    /\ UNCHANGED <<lines, current_time, pc, total_seconds, error, wpm,
                   attributed, calls, saved, viewVars>>

\* if character_re.match(cleaned_line): ...
CharacterCue ==
    /\ InLoop
    /\ LET cleaned == clean_line(lines[i])
       IN  /\ character_re(cleaned)
           /\ current_character' = Strip(cleaned)
           /\ character_data' = WithRecord(character_data, Strip(cleaned))
           /\ capturing_dialogue' = BlankCheck(cleaned, TRUE)
    /\ i' = i + 1
    /\ UNCHANGED <<lines, current_time, pc, total_seconds, error, wpm,
                   attributed, calls, saved, viewVars>>

\* elif capturing_dialogue and cleaned_line: ...
Dialogue ==
    /\ InLoop
    /\ LET cleaned == clean_line(lines[i])
           word_count == count_words(Strip(cleaned))
           end_time == EndTime(current_time, word_count, wpm)
       IN  /\ ~character_re(cleaned)
           /\ ~(parenthetical_re(cleaned) \/ stage_direction_re(cleaned))
           /\ capturing_dialogue /\ cleaned # <<>>
           /\ IF ~Truthy(current_character)
              THEN /\ i' = i + 1
                   /\ capturing_dialogue' = BlankCheck(cleaned, capturing_dialogue)
                   /\ UNCHANGED <<lines, character_data, current_time,
                                  current_character, pc, total_seconds, error,
                                  wpm, attributed, calls, saved, viewVars>>
              ELSE IF wpm = 0
              THEN Raise("ZeroDivisionError")
              ELSE IF current_character \notin DOMAIN character_data
              THEN Raise("KeyError")
              ELSE /\ character_data' =
                          [character_data EXCEPT ![current_character] =
                              SpeakingTurn(@, current_time, end_time, word_count)]
                   /\ current_time' = end_time
                   /\ attributed' = Append(attributed, <<current_character, i>>)
                   /\ capturing_dialogue' = BlankCheck(cleaned, capturing_dialogue)
                   /\ i' = i + 1
                   /\ UNCHANGED <<lines, current_character, pc, total_seconds,
                                  error, wpm, calls, saved, viewVars>>

\* Fault: a line that no branch handles is rejected with an exception.
OtherLineRejecting ==
    /\ InLoop
    /\ LET cleaned == clean_line(lines[i])
       IN  /\ ~character_re(cleaned)
           /\ \/ parenthetical_re(cleaned) \/ stage_direction_re(cleaned)
              \/ ~(capturing_dialogue /\ cleaned # <<>>)
    /\ Raise("ValueError")

\* the lines that take neither branch above: the "continue" of the
\* parenthetical / stage-direction test, or no branch at all
OtherLine ==
    /\ InLoop
    /\ LET cleaned == clean_line(lines[i])
       IN  /\ ~character_re(cleaned)
           /\ IF parenthetical_re(cleaned) \/ stage_direction_re(cleaned)
              THEN UNCHANGED capturing_dialogue
              ELSE /\ ~(capturing_dialogue /\ cleaned # <<>>)
                   /\ capturing_dialogue' = BlankCheck(cleaned, capturing_dialogue)
    /\ i' = i + 1
    /\ UNCHANGED <<lines, character_data, current_time, current_character, pc,
                   total_seconds, error, wpm, attributed, calls, saved, viewVars>>

\* total_seconds = max(end_time for ...); return character_data, total_seconds
ComputeTotal ==
    /\ pc = "loop"
    /\ i > Len(lines)
    /\ IF AllEnds(character_data) = {}
       THEN Raise("ValueError")
       ELSE /\ total_seconds' = SetMax(AllEnds(character_data))
            /\ pc' = "done"
            /\ UNCHANGED <<lines, i, character_data, current_time,
                           current_character, capturing_dialogue, error, wpm,
                           attributed, calls, saved, viewVars>>

Next == CharacterCue \/ Dialogue \/ OtherLine \/ ComputeTotal

Spec == Init /\ [][Next]_vars

\* The same parser with the module global WORDS_PER_MINUTE set by the
\* embedding program before the call.
InitRate == InitWith(Scripts, Rates)

SpecRate == InitRate /\ [][Next]_vars

\* What a call hands back: the returned pair, or the exception raised
Outcome == <<pc, error, character_data, total_seconds>>

\* A further call of extract_character_data(file_path) in the same process,
\* on any file; the history variable may remember the call that just ended.
Call ==
    /\ Finished
    /\ calls < MaxCalls
    /\ \E script \in CallScripts, remember \in BOOLEAN :
          /\ lines' = script
          /\ saved' = IF remember /\ saved = <<>>
                      THEN <<lines, Outcome, calls>>
                      ELSE saved
    /\ EnterCall
    /\ i' = 1
    /\ pc' = "loop"
    /\ total_seconds' = 0
    /\ error' = ""
    /\ attributed' = <<>>
    /\ calls' = calls + 1
    /\ UNCHANGED <<wpm, viewVars>>

InitCalls == InitWith(CallScripts, {WORDS_PER_MINUTE})

NextCalls == CharacterCue \/ Dialogue \/ OtherLine \/ ComputeTotal \/ Call

SpecCalls == InitCalls /\ [][NextCalls]_vars

-----------------------------------------------------------------------------
(* analyze_fountain_file and the presentation functions *)

parserVars == <<lines, i, character_data, current_time, current_character,
                capturing_dialogue, pc, total_seconds, wpm, attributed, calls,
                saved>>

\* int(num / den): the quotient truncated toward zero, den # 0
Trunc(num, den) ==
    IF den > 0
    THEN IF num >= 0 THEN num \div den ELSE 0 - ((0 - num) \div den)
    ELSE IF num >= 0 THEN 0 - (num \div (0 - den)) ELSE (0 - num) \div (0 - den)

\* Fault: the fraction is scaled to a percentage, not to the bar's length.
BarIndexPercent(t, total) == Trunc(t * 100, total)

\* int(t / total_seconds * max_length), total # 0
BarIndex(t, total) == Trunc(t * max_length, total)

AllIntervals(data) ==
    UNION {{data[c].positions[k] : k \in 1..Len(data[c].positions)} :
              c \in DOMAIN data}

\* the values of i in "for i in range(start_idx, end_idx): bar[i] = ..."
BarRange(data, c, total) ==
    UNION {BarIndex(data[c].positions[k][1], total)
               .. (BarIndex(data[c].positions[k][2], total) - 1) :
              k \in 1..Len(data[c].positions)}

\* bar[i] with a negative i counts from the end of the list
Cell(n) == IF n < 0 THEN n + max_length ELSE n

\* the exception display_cli_timeline ends with, "" if it completes
display_cli_timeline(data, total) ==
    IF AllIntervals(data) = {} THEN ""
    ELSE IF total = 0 THEN "ZeroDivisionError"
    ELSE IF \E c \in DOMAIN data :
               \E n \in BarRange(data, c, total) :
                  Cell(n) \notin 0..(max_length - 1)
         THEN "IndexError"
         ELSE ""

\* the exception plot_character_activity ends with, "" if it completes:
\* height_per_row = 1 / num_characters
plot_character_activity(data, total) ==
    IF Cardinality(DOMAIN data) = 0 THEN "ZeroDivisionError" ELSE ""

\* display_character_counts builds and prints the table; nothing in it
\* depends on the mapping being non-empty
display_character_counts(data, total) == ""

Crash(exception) ==
    /\ apc' = "crashed"
    /\ error' = exception
    /\ UNCHANGED <<parserVars, show_plot, show_cli, bars>>

\* character_data, total_seconds = extract_character_data(file_path)
Extracted ==
    /\ apc = "parse"
    /\ pc = "done"
    /\ apc' = "plot"
    /\ UNCHANGED <<parserVars, error, show_plot, show_cli, bars>>

\* if show_plot: plot_character_activity(...)
ShowPlot ==
    /\ apc = "plot"
    /\ IF show_plot /\ plot_character_activity(character_data, total_seconds) # ""
       THEN Crash(plot_character_activity(character_data, total_seconds))
       ELSE /\ apc' = "cli"
            /\ UNCHANGED <<parserVars, error, show_plot, show_cli, bars>>

\* if show_cli: display_cli_timeline(...)
ShowCli ==
    /\ apc = "cli"
    /\ IF show_cli /\ display_cli_timeline(character_data, total_seconds) # ""
       THEN Crash(display_cli_timeline(character_data, total_seconds))
       ELSE /\ apc' = "table"
            /\ bars' = IF show_cli
                       THEN [c \in DOMAIN character_data |->
                               {Cell(n) : n \in BarRange(character_data, c,
                                                         total_seconds)}]
                       ELSE bars
            /\ UNCHANGED <<parserVars, error, show_plot, show_cli>>

\* display_character_counts(character_data, total_seconds)
ShowCounts ==
    /\ apc = "table"
    /\ IF display_character_counts(character_data, total_seconds) # ""
       THEN Crash(display_character_counts(character_data, total_seconds))
       ELSE /\ apc' = "end"
            /\ UNCHANGED <<parserVars, error, show_plot, show_cli, bars>>

ShownScripts == ScriptsOver(LineSet, MaxShownLines)

InitAnalyze ==
    /\ ParserInit(ShownScripts, {WORDS_PER_MINUTE})
    /\ show_plot \in BOOLEAN
    /\ show_cli \in BOOLEAN
    /\ apc = "parse"
    /\ bars = EmptyBars

NextAnalyze ==
    \/ CharacterCue \/ Dialogue \/ OtherLine \/ ComputeTotal
    \/ Extracted \/ ShowPlot \/ ShowCli \/ ShowCounts

SpecAnalyze == InitAnalyze /\ [][NextAnalyze]_vars

\* The presentation functions called by a program of its own with a parse
\* result it holds: a mapping of up to two characters and its total.
ArgumentNames == {<<"J", "O", "E">>, <<"A", "L">>}

ArgumentPositions == {<<>>, <<<<0, 400>>>>, <<<<0, 400>>, <<400, 1200>>>>}

ArgumentRecord(p) ==
    [positions |-> p, word_count |-> Len(p) * Len(p), line_count |-> Len(p)]

ArgumentData ==
    UNION {{[c \in S |-> ArgumentRecord(f[c])] : f \in [S -> ArgumentPositions]} :
              S \in SUBSET ArgumentNames}

InitAdapters ==
    /\ character_data \in ArgumentData
    /\ total_seconds = IF AllEnds(character_data) = {} THEN 0
                       ELSE SetMax(AllEnds(character_data))
    /\ show_plot \in BOOLEAN
    /\ show_cli \in BOOLEAN
    /\ apc = "plot"
    /\ bars = EmptyBars
    /\ pc = "done"
    /\ error = ""
    /\ lines = <<>>
    /\ i = 1
    /\ wpm = WORDS_PER_MINUTE
    /\ current_time = total_seconds
    /\ current_character = None
    /\ capturing_dialogue = FALSE
    /\ attributed = <<>>
    /\ calls = 0
    /\ saved = <<>>

NextAdapters == ShowPlot \/ ShowCli \/ ShowCounts

SpecAdapters == InitAdapters /\ [][NextAdapters]_vars

-----------------------------------------------------------------------------
(* The double-precision values of the clock.
   The times above are exact, in milliseconds.  The program holds them in
   binary64 floats, and each of "/", "*" and "+" rounds its exact result to
   the nearest value with a 53-bit significand, ties to even.  A time is kept
   here as the integer  time * 2^75, written in base 2^15 with the least
   significant limb first; every double between 2^-22 and 2^15 is such an
   integer. *)

LimbBits == 15

LimbBase == 32768

LimbCount == 6

Precision == 53

BigZero == [k \in 1..LimbCount |-> 0]

\* the integer n as a time: n * 2^75, for 0 <= n < 2^15
FromInt(n) == [k \in 1..LimbCount |-> IF k = LimbCount THEN n ELSE 0]

RECURSIVE CarryInto(_, _, _)
CarryInto(a, b, k) ==
    IF k = 1 THEN 0
    ELSE (a[k - 1] + b[k - 1] + CarryInto(a, b, k - 1)) \div LimbBase

\* a + b, exact
BigPlus(a, b) ==
    [k \in 1..LimbCount |-> (a[k] + b[k] + CarryInto(a, b, k)) % LimbBase]

RECURSIVE BorrowFrom(_, _, _)
BorrowFrom(a, b, k) ==
    IF k = 1 THEN 0
    ELSE IF a[k - 1] - b[k - 1] - BorrowFrom(a, b, k - 1) < 0 THEN 1 ELSE 0

\* a - b, exact, for a >= b
BigMinus(a, b) ==
    [k \in 1..LimbCount |->
        (a[k] - b[k] - BorrowFrom(a, b, k) + LimbBase) % LimbBase]

RECURSIVE TimesCarry(_, _, _)
TimesCarry(a, m, k) ==
    IF k = 1 THEN 0
    ELSE (a[k - 1] * m + TimesCarry(a, m, k - 1)) \div LimbBase

\* a * m, exact, for a small natural m
BigTimes(a, m) ==
    [k \in 1..LimbCount |-> (a[k] * m + TimesCarry(a, m, k)) % LimbBase]

RECURSIVE RemainderAbove(_, _, _)
RemainderAbove(a, d, k) ==
    IF k = LimbCount THEN 0
    ELSE (RemainderAbove(a, d, k + 1) * LimbBase + a[k + 1]) % d

\* floor(a / d) and a mod d, for a small positive d
BigQuotient(a, d) ==
    [k \in 1..LimbCount |-> (RemainderAbove(a, d, k) * LimbBase + a[k]) \div d]

BigRemainder(a, d) == (RemainderAbove(a, d, 1) * LimbBase + a[1]) % d

BigLess(a, b) ==
    \E k \in 1..LimbCount :
        /\ a[k] < b[k]
        /\ \A j \in (k + 1)..LimbCount : a[j] = b[j]

\* bit j of a, bit 0 the least significant
Bit(a, j) == (a[(j \div LimbBits) + 1] \div (2 ^ (j % LimbBits))) % 2

BitLength(a) ==
    IF a = BigZero THEN 0
    ELSE SetMax({j \in 0..(LimbBits * LimbCount - 1) : Bit(a, j) = 1}) + 1

BigPow2(j) ==
    [k \in 1..LimbCount |->
        IF k = (j \div LimbBits) + 1 THEN 2 ^ (j % LimbBits) ELSE 0]

\* a with its d lowest bits cleared
ClearLow(a, d) ==
    [k \in 1..LimbCount |->
        IF k < (d \div LimbBits) + 1 THEN 0
        ELSE IF k = (d \div LimbBits) + 1
             THEN (a[k] \div (2 ^ (d % LimbBits))) * (2 ^ (d % LimbBits))
             ELSE a[k]]

\* The double nearest to an exact result, ties to even.  The exact result is
\* a, plus a positive amount below one unit of a if inexact.
RoundToNearestEven(a, inexact) ==
    LET d == BitLength(a) - Precision
    IN  IF d <= 0 THEN a
        ELSE LET half == Bit(a, d - 1) = 1
                 below == inexact \/ \E j \in 0..(d - 2) : Bit(a, j) = 1
                 odd == Bit(a, d) = 1
             IN  IF half /\ (below \/ odd)
                 THEN BigPlus(ClearLow(a, d), BigPow2(d))
                 ELSE ClearLow(a, d)

\* n / rate on two ints
FloatDivide(n, rate) ==
    RoundToNearestEven(BigQuotient(FromInt(n), rate),
                       BigRemainder(FromInt(n), rate) # 0)

\* x * m
FloatTimes(x, m) == RoundToNearestEven(BigTimes(x, m), FALSE)

\* Fault: the clock is set to the duration instead of advanced by it.
FloatPlusReplacing(x, y) == y

\* x + y
FloatPlus(x, y) == RoundToNearestEven(BigPlus(x, y), FALSE)

\* duration = word_count / WORDS_PER_MINUTE * 60
FloatDuration(word_count, rate) == FloatTimes(FloatDivide(word_count, rate), 60)

\* the words of the n-th line that was recorded as dialogue
RecordedWords(n) == count_words(Strip(clean_line(lines[attributed[n][2]])))

\* current_time after the n-th recorded line: end_time = current_time + duration
RECURSIVE FloatClock(_)
FloatClock(n) ==
    IF n = 0 THEN BigZero
    ELSE FloatPlus(FloatClock(n - 1), FloatDuration(RecordedWords(n), wpm))

\* max(end for ...) over the stored ends
FloatTotal ==
    LET ends == {FloatClock(n) : n \in 1..Len(attributed)}
    IN  CHOOSE x \in ends : \A y \in ends : ~BigLess(x, y)

\* extract_character_data on the short scripts, for the clock's double values
InitClock == InitWith(ShownScripts, {WORDS_PER_MINUTE})

SpecClock == InitClock /\ [][Next]_vars

-----------------------------------------------------------------------------
(* Properties *)

Cleaned(k) == clean_line(lines[k])

IsCue(k) == character_re(Cleaned(k))

NoCue(script) == \A k \in 1..Len(script) : ~character_re(clean_line(script[k]))

Positions(c) == character_data[c].positions

\* C1: a whole-line parenthetical changes nothing: capturing_dialogue and
\* current_character are after the line what they were before it, so a
\* dialogue line that follows is still attributed to the character.
C1_ParentheticalChangesNothing ==
    [][(InLoop /\ parenthetical_re(lines[i]))
          => /\ capturing_dialogue' = capturing_dialogue
             /\ current_character' = current_character
             /\ character_data' = character_data]_vars

\* C2: a stage-direction line met while capturing is on turns capturing off
\* and adds nothing, and while capturing is off a line that is no cue changes
\* no record.
C2_StageDirectionEndsCapturing ==
    [][/\ (InLoop /\ capturing_dialogue /\ stage_direction_re(lines[i]))
            => (~capturing_dialogue' /\ character_data' = character_data)
       /\ (InLoop /\ ~capturing_dialogue /\ ~IsCue(i))
            => character_data' = character_data]_vars

\* C3: a script without any character cue ends in a return, never in an
\* exception, with an empty mapping and total_seconds = 0.
C3_NoCueReturnsEmpty ==
    (Finished /\ NoCue(lines))
        => (pc = "done" /\ character_data = EmptyData /\ total_seconds = 0)

\* C4: every script ends in a return whose total_seconds is the greatest
\* interval end of all characters, and is 0 exactly when there is no interval.
C4_TotalIsMaxEnd ==
    Finished
        => /\ pc = "done"
           /\ total_seconds = IF AllEnds(character_data) = {} THEN 0
                              ELSE SetMax(AllEnds(character_data))
           /\ (total_seconds = 0) <=> (AllEnds(character_data) = {})

\* C5: with a rate that is zero or negative the call is rejected before it
\* parses: it never divides by the rate (no ZeroDivisionError), never
\* computes a speaking turn, so never stores an interval (of negative
\* duration or other), and never returns a result.
C5_NonPositiveRateRejected ==
    (wpm <= 0)
        => /\ error # "ZeroDivisionError"
           /\ attributed = <<>>
           /\ AllEnds(character_data) = {}
           /\ pc # "done"

\* C6: after every prefix of every script each stored interval has
\* end >= start, and each character's intervals are in non-decreasing order
\* of start.
C6_IntervalsOrdered ==
    \A c \in DOMAIN character_data :
        /\ \A k \in 1..Len(Positions(c)) :
              Positions(c)[k][2] >= Positions(c)[k][1]
        /\ \A k \in 1..(Len(Positions(c)) - 1) :
              Positions(c)[k][1] <= Positions(c)[k + 1][1]

C6_Witness ==
    /\ Cardinality(DOMAIN character_data) >= 2
    /\ \E c \in DOMAIN character_data :
          /\ Len(Positions(c)) >= 2
          /\ Positions(c)[2][1] > Positions(c)[1][1]

\* Whitespace-delimited tokens of a text, counted by their first characters
TokenCount(s) ==
    Cardinality({k \in 1..Len(s) :
                    /\ s[k] \notin Whitespace
                    /\ (k = 1 \/ s[k - 1] \in Whitespace)})

AttributedTo(c) == {k \in 1..Len(attributed) : attributed[k][1] = c}

RECURSIVE TokenSum(_)
TokenSum(S) ==
    IF S = {} THEN 0
    ELSE LET k == CHOOSE x \in S : TRUE
         IN  TokenCount(Cleaned(attributed[k][2])) + TokenSum(S \ {k})

\* C7: each character's word_count is the sum of the token counts of the
\* cleaned dialogue lines attributed to it, and its line_count is the number
\* of those lines; a character never attributed a line has no record change.
C7_CountsMatchAttributedLines ==
    /\ \A c \in DOMAIN character_data :
          /\ character_data[c].word_count = TokenSum(AttributedTo(c))
          /\ character_data[c].line_count = Cardinality(AttributedTo(c))
    /\ \A k \in 1..Len(attributed) : attributed[k][1] \in DOMAIN character_data

C7_Witness ==
    /\ i - 1 >= Len(attributed) + 2
    /\ \E c \in DOMAIN character_data :
          /\ character_data[c].line_count = 2
          /\ character_data[c].word_count = 5

\* C8: a call on the line sequence of an earlier call hands back what that
\* call handed back, whatever calls were made in between.
C8_SameScriptSameOutcome ==
    (Finished /\ saved # <<>> /\ saved[1] = lines) => saved[2] = Outcome

C8_Witness ==
    /\ pc = "done"
    /\ saved # <<>>
    /\ saved[1] = lines
    /\ calls >= saved[3] + 2

LastCueBefore(k) == SetMax({j \in 1..(k - 1) : IsCue(j)})

\* C9: a cue met while capturing for another character makes the new name
\* the current character at once, keeps capturing on and touches no existing
\* record; and every dialogue line is attributed to the character of the
\* latest cue before it, and only to it.
C9_CueSwitchesSpeaker ==
    /\ [][(InLoop /\ IsCue(i) /\ capturing_dialogue
              /\ current_character # Cleaned(i))
            => /\ current_character' = Cleaned(i)
               /\ capturing_dialogue'
               /\ \A c \in DOMAIN character_data :
                     character_data'[c] = character_data[c]]_vars
    /\ [](\A k \in 1..Len(attributed) :
             /\ \E j \in 1..(attributed[k][2] - 1) : IsCue(j)
             /\ attributed[k][1] = Cleaned(LastCueBefore(attributed[k][2])))

C9_Witness ==
    /\ i = 4
    /\ IsCue(1) /\ IsCue(2) /\ Cleaned(1) # Cleaned(2)
    /\ character_data[Cleaned(1)].line_count = 0
    /\ character_data[Cleaned(2)].line_count = 1
    /\ attributed = <<<<Cleaned(2), 3>>>>

IsPrefix(p, q) == Len(p) <= Len(q) /\ SubSeq(q, 1, Len(p)) = p

\* C10: a cue whose name has a record leaves the mapping as it was; no step
\* of the parse removes a key, and no step lowers a record's word_count or
\* line_count or shortens or rewrites its interval list.
C10_RecordsReusedAndGrowOnly ==
    [][/\ (InLoop /\ IsCue(i) /\ Cleaned(i) \in DOMAIN character_data)
            => character_data' = character_data
       /\ DOMAIN character_data \subseteq DOMAIN character_data'
       /\ \A c \in DOMAIN character_data :
             /\ character_data'[c].word_count >= character_data[c].word_count
             /\ character_data'[c].line_count >= character_data[c].line_count
             /\ IsPrefix(character_data[c].positions,
                         character_data'[c].positions)]_vars

C10_Witness ==
    /\ pc = "loop"
    /\ i > 1
    /\ IsCue(i - 1)
    /\ character_data[Cleaned(i - 1)].line_count >= 1
    /\ Cardinality(DOMAIN character_data) >= 2

IsBlank(k) == Strip(lines[k]) = <<>>

\* C11: a blank line turns capturing off; while capturing is off a line that
\* is no cue changes no record, adds no key, leaves the cursor where it is
\* and leaves capturing off; a cue turns capturing on again.
C11_BlankEndsCapturing ==
    [][/\ (InLoop /\ IsBlank(i)) => ~capturing_dialogue'
       /\ (InLoop /\ ~capturing_dialogue /\ ~IsCue(i))
            => /\ character_data' = character_data
               /\ current_time' = current_time
               /\ ~capturing_dialogue'
       /\ (InLoop /\ ~capturing_dialogue /\ IsCue(i))
            => capturing_dialogue']_vars

C11_Witness ==
    /\ i = 5
    /\ IsCue(1)
    /\ IsBlank(3)
    /\ ~IsCue(4) /\ Cleaned(4) # <<>>
    /\ attributed = <<<<Cleaned(1), 2>>>>
    /\ ~capturing_dialogue

NoCueYet == \A k \in 1..(i - 1) : ~IsCue(k)

\* C12: as long as no cue has been processed the mapping is empty, capturing
\* is off, current_character is None and the cursor is 0.
C12_InertBeforeFirstCue ==
    NoCueYet
        => /\ character_data = EmptyData
           /\ ~capturing_dialogue
           /\ current_character = None
           /\ current_time = 0

C12_Witness ==
    /\ i = 4
    /\ NoCueYet
    /\ \A k \in 1..3 : Cleaned(k) # <<>>

\* the branches of the loop body that the current step is a step of
BranchesTaken ==
    {b \in {"cue", "dialogue", "other"} :
        \/ b = "cue" /\ CharacterCue
        \/ b = "dialogue" /\ Dialogue
        \/ b = "other" /\ OtherLine}

\* C13: every step on a line is a step of exactly one branch of the loop
\* body, raises nothing and moves on to the next line; the loop is left only
\* with every line read, and the call raises nothing but the ValueError of
\* max() after the loop.
C13_EveryLineTakesOneBranch ==
    /\ [][InLoop => /\ Cardinality(BranchesTaken) = 1
                    /\ pc' = "loop"
                    /\ i' = i + 1]_vars
    /\ [](pc # "loop" => i = Len(lines) + 1)
    /\ [](error \in {"", "ValueError"})

C13_Witness ==
    /\ pc # "loop"
    /\ i = Len(lines) + 1
    /\ Len(lines) >= 4
    /\ attributed # <<>>
    /\ \E k \in 1..Len(lines) : parenthetical_re(lines[k])
    /\ \E k \in 1..Len(lines) : IsBlank(k)

\* C14: given the empty parse result (no character, total_seconds = 0),
\* plot_character_activity, display_cli_timeline and display_character_counts
\* all complete: none of them ends with an exception.
C14_EmptyResultHandled ==
    (character_data = EmptyData /\ total_seconds = 0) => apc # "crashed"

\* C15: a dialogue line of w words appends exactly the interval
\* (current_time, current_time + w / wpm * 60) to the speaker's list, adds w
\* to its word_count and 1 to its line_count, and moves current_time to the
\* interval's end; every other line leaves current_time alone, so the clock
\* never goes back. At 150 wpm a word is 0.4 s (400 ms).
IsDialogue(k) ==
    capturing_dialogue /\ Truthy(current_character) /\ ~IsCue(k) /\ Cleaned(k) # <<>>

BeginsWithDot(k) == Len(lines[k]) >= 1 /\ lines[k][1] = "."

C16_SkippedLinesNeverDialogue ==
    [][(InLoop /\ (parenthetical_re(lines[i]) \/ BeginsWithDot(i)))
          => /\ character_data' = character_data
             /\ current_time' = current_time]_vars

\* C18: every recorded dialogue line has at least one word, so every stored
\* interval ends strictly after it starts, and after any prefix of the script
\* every record has len(positions) = line_count <= word_count.
C18_RecordedLinesHaveWords ==
    \A c \in DOMAIN character_data :
        LET rec == character_data[c]
        IN  /\ Len(rec.positions) = rec.line_count
            /\ rec.line_count <= rec.word_count
            /\ \A k \in 1..Len(rec.positions) :
                  rec.positions[k][2] > rec.positions[k][1]

C18_Witness ==
    \E c \in DOMAIN character_data :
        /\ Len(character_data[c].positions) = 2
        /\ character_data[c].line_count = 2
        /\ character_data[c].word_count = 4

\* C19: after any prefix of any script, capturing implies that
\* current_character is set, non-empty and a key of the mapping; once set it
\* is never reset to none; the dialogue branch never indexes a missing record.
C19_CapturingHasSpeaker ==
    /\ [](capturing_dialogue =>
            /\ current_character # None
            /\ Truthy(current_character)
            /\ Len(current_character) >= 1
            /\ current_character \in DOMAIN character_data)
    /\ [](error # "KeyError")
    /\ [][current_character # None => current_character' # None]_vars

C19_Witness ==
    /\ i = 5
    /\ IsCue(1)
    /\ IsBlank(2)
    /\ IsCue(3)
    /\ capturing_dialogue
    /\ current_character = Strip(Cleaned(3))
    /\ attributed = <<<<current_character, 4>>>>

\* C20: whenever display_cli_timeline is called with a result returned by
\* extract_character_data, total_seconds > 0 and every interval has
\* 0 <= start_idx <= end_idx <= 50, so every bar cell written has an index in
\* 0..49 and the 50-cell bar is never indexed out of range.
CliCalled == pc = "done" /\ show_cli /\ apc \in {"cli", "table", "end"}

C20_BarIndexesInRange ==
    /\ CliCalled =>
          /\ total_seconds > 0
          /\ \A iv \in AllIntervals(character_data) :
                /\ 0 <= BarIndex(iv[1], total_seconds)
                /\ BarIndex(iv[1], total_seconds) <= BarIndex(iv[2], total_seconds)
                /\ BarIndex(iv[2], total_seconds) <= max_length
          /\ \A c \in DOMAIN character_data :
                BarRange(character_data, c, total_seconds) \subseteq 0..(max_length - 1)
    /\ \A c \in DOMAIN bars : bars[c] \subseteq 0..(max_length - 1)
    /\ error \notin {"IndexError", "ZeroDivisionError"}

C20_Witness ==
    /\ apc = "end"
    /\ show_cli
    /\ \E c \in DOMAIN bars :
          /\ Len(character_data[c].positions) = 2
          /\ bars[c] = 0..(max_length - 1)

\* C17: the intervals of all characters, in script order, tile the timeline:
\* the first starts at 0 and each later one starts exactly where the previous
\* one (of any character) ended; and when an interval exists total_seconds is
\* the final cursor, which is (sum of all word_count) / wpm * 60.
\* Stated on the values the program holds, the last equality is between
\* doubles.
IntervalOf(n) ==
    LET c == attributed[n][1]
    IN  character_data[c].positions[Cardinality({m \in 1..n : attributed[m][1] = c})]

Tiles ==
    /\ \A c \in DOMAIN character_data :
          Len(character_data[c].positions) = Cardinality(AttributedTo(c))
    /\ \A n \in 1..Len(attributed) :
          /\ IntervalOf(n)[1] = IF n = 1 THEN 0 ELSE IntervalOf(n - 1)[2]
          /\ IntervalOf(n)[2] > IntervalOf(n)[1]
    /\ attributed # <<>> => current_time = IntervalOf(Len(attributed))[2]

RECURSIVE WordCountSum(_)
WordCountSum(S) ==
    IF S = {} THEN 0
    ELSE LET c == CHOOSE x \in S : TRUE
         IN  character_data[c].word_count + WordCountSum(S \ {c})

AllWords == WordCountSum(DOMAIN character_data)

TotalIsCursor ==
    /\ total_seconds = current_time
    /\ FloatTotal = FloatClock(Len(attributed))

FloatGap(x, y) == IF BigLess(x, y) THEN BigMinus(y, x) ELSE BigMinus(x, y)

UnitInLastPlace(x) == BigPow2(BitLength(x) - Precision)

====
